---- MODULE Spec2Model ----
(***************************************************************************)
(* wreq-rb: the synchronous-to-asynchronous bridge of Wreq::Client.        *)
(*                                                                         *)
(* Host (Ruby) threads run under the cooperative lock (GVL).  A request    *)
(* call validates its arguments under the lock, then without_gvl builds a  *)
(* CallData record and hands the host two callbacks: the trampoline        *)
(* `call`, which runs the closure inside catch_unwind, and the unblock     *)
(* function `ubf`, which cancels the record's token.  The closure gets the *)
(* shared runtime and drives a biased select between the token's           *)
(* cancellation and execute_request.                                       *)
(***************************************************************************)
EXTENDS Naturals, Sequences, FiniteSets, TLC

\* ------------------------------------------------------------------ bounds

\* Unblock-function invocations the host makes during one call.
MaxUbf == 2
\* Option keys present in one per-call option map.
MaxPresent == 2

\* The host threads that issue calls.
Threads == {"t1", "t2"}

\* ------------------------------------------------------------ value domains

\* Panic payloads (Box<dyn Any + Send>) an engine fault can carry.
EnginePayloads == {"engine invariant violated"}
RuntimeBuildPayload == "failed to build tokio runtime"

\* Completed responses the engine can deliver, and its error messages.
\* A header of an engine response: its value is bytes, which may or may not be
\* visible ASCII (HeaderValue::to_str fails on any other byte).
EngineHeader(n, v, vis) == [name |-> n, value |-> v, visible |-> vis]
NoLength == [some |-> FALSE, v |-> 0]
Length(n) == [some |-> TRUE, v |-> n]
Responses ==
    {[status |-> 201,
      headers |-> <<EngineHeader("content-type", "text/plain", TRUE),
                    EngineHeader("set-cookie", "a=1", TRUE),
                    EngineHeader("set-cookie", "b=2", TRUE)>>,
      body |-> "ok", url |-> "http://h/created", version |-> "HTTP_11",
      content_length |-> Length(2)],
     [status |-> 404,
      headers |-> <<EngineHeader("x-trace", "raw-bytes", FALSE)>>,
      body |-> "nf", url |-> "http://h/moved/missing", version |-> "HTTP_2",
      content_length |-> NoLength]}
EngineMsgs == {"connection refused"}
BuilderMsg == "builder error"

NoData == [status |-> 0, headers |-> <<>>, body |-> "", url |-> "",
           version |-> "", content_length |-> NoLength]

\* RequestOutcome (client.rs 113-117), with a NoOutcome for an empty slot.
OutcomeOk(d) == [kind |-> "Ok", data |-> d, msg |-> ""]
OutcomeErr(m) == [kind |-> "Err", data |-> NoData, msg |-> m]
OutcomeInterrupted == [kind |-> "Interrupted", data |-> NoData, msg |-> ""]
NoOutcome == [kind |-> "None", data |-> NoData, msg |-> ""]

\* What the closure's evaluation ends with: a value or an unwinding panic.
ClosureVal(o) == [kind |-> "val", v |-> o, p |-> "None"]
ClosurePanic(p) == [kind |-> "panic", v |-> NoOutcome, p |-> p]

\* What the host sees when execute_method ends.
NoReturn == [kind |-> "None", data |-> NoData, class |-> "", msg |-> ""]
RetResponse(d) == [kind |-> "Response", data |-> d, class |-> "", msg |-> ""]
RetError(c, m) == [kind |-> "Error", data |-> NoData, class |-> c, msg |-> m]
RetPanic(p) == [kind |-> "Panic", data |-> NoData, class |-> "", msg |-> p]

\* Engine side of one request.
EngineIdle == [st |-> "idle", resp |-> NoData, msg |-> ""]

VARIABLES
    holders,        \* host threads holding the cooperative lock
    pc,             \* each thread's position in execute_method / without_gvl
    func,           \* CallData.func: "absent" (no record), "Some", "None"
    result,         \* CallData.result: NoOutcome (None) or Some(outcome)
    token,          \* CallData.token: "absent", "Active", "Cancelled"
    panic_payload,  \* CallData.panic_payload: "None" or the payload
    ubfLog,         \* phases in which the host invoked ubf during this call
    eng,            \* engine side of the call's request
    fut,            \* execute_request's await point: "init", "send", "body"
    lastPoll,       \* token and engine state when the select's poll began
    rt,             \* the OnceLock<Runtime>: "uninit", "building", "ready"
    rtBuilds,       \* runtimes built so far in this process
    ret,            \* what execute_method gave the host
    thrown,         \* payload the closure panicked with ("None": no panic)
    execCount,      \* times the closure was invoked in this call
    submitted,      \* times the request was handed to the engine in this call
    consumed,       \* times the stored outcome was taken out after the call
    unwound,        \* a panic crossed the host's foreign frame (UB)
    argsBad,        \* the call's arguments hold an invalid option (see below)
    probe           \* a host call that needs no request: operation, input, output

bridge == <<holders, pc, func, result, token, panic_payload, ubfLog, eng, fut,
            lastPoll, rt, rtBuilds, ret, thrown, execCount, submitted, consumed,
            unwound, argsBad>>

vars == <<bridge, probe>>

record == <<func, result, token, panic_payload>>
ghost == <<thrown, execCount, submitted, consumed, unwound, argsBad>>

NoPoll == [tok |-> "absent", eng |-> "idle"]
NoProbe == [op |-> "none", in |-> <<>>, out |-> <<>>]

Init ==
    /\ holders = {}
    /\ pc = [t \in Threads |-> "idle"]
    /\ func = [t \in Threads |-> "absent"]
    /\ result = [t \in Threads |-> NoOutcome]
    /\ token = [t \in Threads |-> "absent"]
    /\ panic_payload = [t \in Threads |-> "None"]
    /\ ubfLog = [t \in Threads |-> <<>>]
    /\ eng = [t \in Threads |-> EngineIdle]
    /\ fut = [t \in Threads |-> "init"]
    /\ lastPoll = [t \in Threads |-> NoPoll]
    /\ rt = "uninit"
    /\ rtBuilds = 0
    /\ ret = [t \in Threads |-> NoReturn]
    /\ thrown = [t \in Threads |-> "None"]
    /\ execCount = [t \in Threads |-> 0]
    /\ submitted = [t \in Threads |-> 0]
    /\ consumed = [t \in Threads |-> 0]
    /\ unwound = [t \in Threads |-> FALSE]
    /\ argsBad = [t \in Threads |-> FALSE]
    /\ probe = NoProbe

\* ------------------------------------------------- pre-boundary validation

\* The keys apply_request_options reads, in the order it reads them.
OptOrder == <<"headers", "body", "json", "form", "query", "timeout", "auth",
              "bearer", "basic", "proxy", "emulation">>
OptKeys == {OptOrder[i] : i \in 1..Len(OptOrder)}

\* The shapes a present (non-nil) value of each key can have.  "wrongtype": the
\* TryConvert of the value fails; "invalid": right type, rejected value (a bad
\* header name or value, an unparsable proxy URL, an unknown emulation name);
\* "negative": a negative or non-finite float; "short": fewer than two elements.
\* For json, whose fallback is to_s, "wrongtype" is a value ruby_to_json cannot
\* convert (an integer beyond i64, a hash key that is no string or symbol).
OptKinds(k) ==
    CASE k = "headers" -> {"ok", "wrongtype", "invalid"}
      [] k = "timeout" -> {"ok", "wrongtype", "negative"}
      [] k = "basic" -> {"ok", "wrongtype", "short"}
      [] k = "proxy" -> {"ok", "wrongtype", "invalid"}
      [] k = "emulation" -> {"ok", "wrongtype", "invalid", "true", "false"}
      [] OTHER -> {"ok", "wrongtype"}

PresentKinds == UNION {OptKinds(k) : k \in OptKeys}

MapsOn(S) ==
    {[k \in OptKeys |-> IF k \in S THEN f[k] ELSE "absent"] :
        f \in {g \in [S -> PresentKinds] : \A k \in S : g[k] \in OptKinds(k)}}

OptionMaps ==
    UNION {MapsOn(S) : S \in {T \in SUBSET OptKeys : Cardinality(T) <= MaxPresent}}

NoOptions == [k \in OptKeys |-> "absent"]

\* The arguments of one request call: args[0] (the url) and args[1] (the
\* options, when given).
ArgsSet ==
    {[url |-> "ok", optsKind |-> "hash", opts |-> m] : m \in OptionMaps}
    \cup {[url |-> u, optsKind |-> "none", opts |-> NoOptions] :
            u \in {"ok", "missing", "wrongtype"}}
    \cup {[url |-> "ok", optsKind |-> "nothash", opts |-> NoOptions]}

Built == [kind |-> "built", class |-> "", msg |-> ""]
Fail(c, m) == [kind |-> "err", class |-> c, msg |-> m]
Panics(m) == [kind |-> "panic", class |-> "", msg |-> m]

\* generic_error / to_magnus_error: both raise Wreq::Error with the message.
generic_error(m) == Fail("Wreq::Error", m)
to_magnus_error(m) == Fail("Wreq::Error", m)
\* A failed magnus TryConvert raises the host's own TypeError.
TryConvertError == Fail("TypeError", "no implicit conversion")

\* One `if let Some(..) = hash_get_*(opts, key)? { .. }` block of
\* apply_request_options.
OptionStep(k, v) ==
    CASE v = "absent" -> Built
      [] v = "wrongtype" -> TryConvertError
      [] k = "headers" /\ v = "invalid" -> generic_error("invalid header")
      [] k = "timeout" /\ v = "negative" ->
            Panics("cannot convert float seconds to Duration")
      [] k = "proxy" /\ v = "invalid" -> to_magnus_error("invalid proxy url")
      [] k = "emulation" /\ v = "invalid" -> generic_error("unknown emulation")
      [] OTHER -> Built

RECURSIVE ApplyFrom(_, _)
ApplyFrom(opts, i) ==
    IF i > Len(OptOrder) THEN Built
    ELSE LET r == OptionStep(OptOrder[i], opts[OptOrder[i]])
         IN  IF r.kind = "built" THEN ApplyFrom(opts, i + 1) ELSE r

apply_request_options(opts) == ApplyFrom(opts, 1)

\* execute_method up to the call of without_gvl: "built" when the request
\* builder is ready, else the early return (or panic) that ends the call.
Validate(args) ==
    IF args.url = "missing" THEN generic_error("url is required")
    ELSE IF args.url = "wrongtype" THEN TryConvertError
    ELSE IF args.optsKind = "nothash" THEN TryConvertError
    ELSE IF args.optsKind = "hash" THEN apply_request_options(args.opts)
    ELSE Built

\* An argument list that is invalid in one of the ways the specification
\* lists for ConfigurationError: no url, a value of the wrong type, an invalid
\* header, an unparsable proxy URL, an unknown emulation name.
ListedInvalid(args) ==
    \/ args.url \in {"missing", "wrongtype"}
    \/ args.optsKind = "nothash"
    \/ \E k \in OptKeys : args.opts[k] = "wrongtype"
    \/ \E k \in {"headers", "proxy", "emulation"} : args.opts[k] = "invalid"

\* ----------------------------------------------------------- the host lock

\* Faulty variant: the closure is run with the lock still held.
KeepGvl(h, t) == h

\* rb_thread_call_without_gvl gives the lock up before it calls the trampoline.
ReleaseGvl(h, t) == h \ {t}

HostAcquire(t) ==
    /\ UNCHANGED probe
    /\ pc[t] = "idle"
    /\ holders = {}
    /\ holders' = {t}
    /\ UNCHANGED <<pc, record, ubfLog, eng, fut, lastPoll, rt, rtBuilds, ret, ghost>>

HostYield(t) ==
    /\ UNCHANGED probe
    /\ pc[t] = "idle"
    /\ t \in holders
    /\ holders' = holders \ {t}
    /\ UNCHANGED <<pc, record, ubfLog, eng, fut, lastPoll, rt, rtBuilds, ret, ghost>>

\* ------------------------------------------- execute_method, up to detaching
\* A call that fails validation ends at "rejected"; one that went through
\* without_gvl ends at "done".

\* The early return of a failed validation, as the host sees it.
EarlyReturn(v) ==
    IF v.kind = "panic" THEN RetPanic(v.msg) ELSE RetError(v.class, v.msg)

\* What validation makes of each argument list: its result, and whether the
\* list is invalid in a listed way.
ValidationCases ==
    {[v |-> Validate(args), bad |-> ListedInvalid(args)] : args \in ArgsSet}

\* Client::execute_method from its entry to the call of the host primitive:
\* validation under the lock, then without_gvl allocates the CallData and
\* rb_thread_call_without_gvl registers ubf and releases the lock.
ExecuteMethod(t) ==
    /\ UNCHANGED probe
    /\ pc[t] = "idle"
    /\ t \in holders
    /\ \E c \in ValidationCases :
        /\ argsBad' = [argsBad EXCEPT ![t] = c.bad]
        /\ IF c.v.kind = "built"
           THEN /\ func' = [func EXCEPT ![t] = "Some"]
                /\ result' = [result EXCEPT ![t] = NoOutcome]
                /\ token' = [token EXCEPT ![t] = "Active"]
                /\ panic_payload' = [panic_payload EXCEPT ![t] = "None"]
                /\ holders' = ReleaseGvl(holders, t)
                /\ pc' = [pc EXCEPT ![t] = "detached"]
                /\ ret' = ret
           ELSE /\ pc' = [pc EXCEPT ![t] = "rejected"]
                /\ ret' = [ret EXCEPT ![t] = EarlyReturn(c.v)]
                /\ UNCHANGED <<record, holders>>
    /\ UNCHANGED <<ubfLog, eng, fut, lastPoll, rt, rtBuilds, thrown, execCount,
                   submitted, consumed, unwound>>

\* ------------------------------------------------------------ the trampoline

\* Faulty variant: the closure is borrowed and stays in the record.
TakeKeeps(slot) == slot

\* Option::take on CallData.func.
Take(slot) == "None"

\* Faulty variant: no catch_unwind, a panic unwinds out of the trampoline
\* into the host's frame.
NoCatchUnwind(t, r) ==
    IF r.kind = "val"
    THEN /\ result' = [result EXCEPT ![t] = r.v]
         /\ panic_payload' = panic_payload
         /\ unwound' = unwound
         /\ pc' = [pc EXCEPT ![t] = "finished"]
    ELSE /\ unwound' = [unwound EXCEPT ![t] = TRUE]
         /\ pc' = [pc EXCEPT ![t] = "ub"]
         /\ UNCHANGED <<result, panic_payload>>

\* Faulty variant: the closure's value is dropped instead of stored.
CatchUnwindDropsValue(t, r) ==
    /\ IF r.kind = "val"
       THEN UNCHANGED <<result, panic_payload>>
       ELSE /\ panic_payload' = [panic_payload EXCEPT ![t] = r.p]
            /\ result' = result
    /\ unwound' = unwound
    /\ pc' = [pc EXCEPT ![t] = "finished"]

\* panic::catch_unwind around f(token), and the match on its result: a value
\* goes to the result slot, a panic's payload to the fault slot; either way the
\* trampoline returns null to the host.
CatchUnwind(t, r) ==
    /\ IF r.kind = "val"
       THEN /\ result' = [result EXCEPT ![t] = r.v]
            /\ panic_payload' = panic_payload
       ELSE /\ panic_payload' = [panic_payload EXCEPT ![t] = r.p]
            /\ result' = result
    /\ unwound' = unwound
    /\ pc' = [pc EXCEPT ![t] = "finished"]

\* The closure's evaluation ends with r (a value or a panic).
ClosureEnds(t, r) ==
    /\ thrown' = [thrown EXCEPT ![t] = r.p]
    /\ CatchUnwind(t, r)

\* Faulty variant: the closure is given a token of its own, not yet
\* cancelled.
CloneFresh(tok) == "Active"

\* CancellationToken::clone: the clone shares the state of the record's
\* token, cancelled or not.
Clone(tok) == tok

\* call, lines 60-62: take the closure out of the record and clone the token.
\* The unwrap sits outside catch_unwind: on an empty slot its panic would
\* unwind into the host's frame.
TrampolineStart(t) ==
    /\ UNCHANGED probe
    /\ pc[t] = "detached"
    /\ IF func[t] = "Some"
       THEN /\ func' = [func EXCEPT ![t] = Take(@)]
            /\ token' = [token EXCEPT ![t] = Clone(@)]
            /\ execCount' = [execCount EXCEPT ![t] = @ + 1]
            /\ pc' = [pc EXCEPT ![t] = "closure"]
            /\ unwound' = unwound
       ELSE /\ unwound' = [unwound EXCEPT ![t] = TRUE]
            /\ pc' = [pc EXCEPT ![t] = "ub"]
            /\ UNCHANGED <<func, token, execCount>>
    /\ UNCHANGED <<holders, result, panic_payload, ubfLog, eng, fut,
                   lastPoll, rt, rtBuilds, ret, thrown, submitted, consumed,
                   argsBad>>

\* -------------------------------------------------------- runtime singleton

\* Faulty variant: a caller that finds the cell empty runs the initializer
\* even while another caller is running it.
RuntimeGetUnsynchronized(t) ==
    /\ UNCHANGED probe
    /\ pc[t] = "closure"
    /\ \/ /\ rt = "ready"
          /\ pc' = [pc EXCEPT ![t] = "select1"]
          /\ rt' = rt
       \/ /\ rt \in {"uninit", "building"}
          /\ rt' = "building"
          /\ pc' = [pc EXCEPT ![t] = "rtinit"]
    /\ UNCHANGED <<holders, record, ubfLog, eng, fut, lastPoll, rtBuilds, ret, ghost>>

\* runtime(): OnceLock::get_or_init.  The first caller runs the initializer,
\* callers arriving meanwhile wait, later callers get the stored runtime.
RuntimeGet(t) ==
    /\ UNCHANGED probe
    /\ pc[t] = "closure"
    /\ \/ /\ rt = "ready"
          /\ pc' = [pc EXCEPT ![t] = "select1"]
          /\ rt' = rt
       \/ /\ rt = "uninit"
          /\ rt' = "building"
          /\ pc' = [pc EXCEPT ![t] = "rtinit"]
    /\ UNCHANGED <<holders, record, ubfLog, eng, fut, lastPoll, rtBuilds, ret, ghost>>

\* The initializer: Builder::build().expect(..).  A failed build panics inside
\* the closure and leaves the cell empty.
RuntimeBuild(t) ==
    /\ UNCHANGED probe
    /\ pc[t] = "rtinit"
    /\ \/ /\ rt' = "ready"
          /\ rtBuilds' = rtBuilds + 1
          /\ pc' = [pc EXCEPT ![t] = "select1"]
          /\ UNCHANGED <<result, panic_payload, thrown, unwound>>
       \/ /\ rt' = "uninit"
          /\ rtBuilds' = rtBuilds
          /\ ClosureEnds(t, ClosurePanic(RuntimeBuildPayload))
    /\ UNCHANGED <<holders, func, token, ubfLog, eng, fut, lastPoll, ret,
                   execCount, submitted, consumed, argsBad>>

\* ------------------------------------------------------------------ the race

\* Faulty variant: the request branch is polled before the cancellation.
RequestFirst == <<"request", "cancel">>

\* tokio::select! { biased; .. }: the branches are polled in declaration
\* order, the cancellation branch first.
BranchOrder == <<"cancel", "request">>

Racing(t) == pc[t] \in {"select1", "select2", "parked"}

\* Faulty variant: only the engine wakes a parked thread.
WokenByEngineOnly(t) ==
    \/ fut[t] = "send" /\ eng[t].st \in {"head", "complete", "failed"}
    \/ fut[t] = "body" /\ eng[t].st \in {"complete", "failed"}

\* block_on parks the thread until a waker fires: the token's, or the
\* engine's when it has something the request future is waiting for.
Woken(t) ==
    \/ token[t] = "Cancelled"
    \/ fut[t] = "send" /\ eng[t].st \in {"head", "complete", "failed"}
    \/ fut[t] = "body" /\ eng[t].st \in {"complete", "failed"}

StillPending(t, pend) ==
    /\ pc' = [pc EXCEPT ![t] = pend]
    /\ UNCHANGED <<result, panic_payload, thrown, unwound>>

\* Faulty variant: the cancellation branch never reports ready.
PollCancelledNever(t, pend) ==
    /\ pc' = [pc EXCEPT ![t] = pend]
    /\ UNCHANGED <<result, panic_payload, thrown, unwound, eng, fut, submitted>>

\* Faulty variant: the cancellation branch reports ready on an active token.
PollCancelledSpurious(t, pend) ==
    /\ ClosureEnds(t, ClosureVal(OutcomeInterrupted))
    /\ UNCHANGED <<eng, fut, submitted>>

\* `_ = cancel.cancelled() => RequestOutcome::Interrupted`
PollCancelled(t, pend) ==
    /\ IF token[t] = "Cancelled"
       THEN ClosureEnds(t, ClosureVal(OutcomeInterrupted))
       ELSE StillPending(t, pend)
    /\ UNCHANGED <<eng, fut, submitted>>

\* format!("{:?}", resp.version()): the Debug text of the protocol version.
VersionDebug(v) ==
    CASE v = "HTTP_11" -> "HTTP/1.1"
      [] v = "HTTP_2" -> "HTTP/2.0"
      [] OTHER -> ""

\* `(k.as_str().to_owned(), v.to_str().unwrap_or("").to_owned())`
HeaderPair(h) == <<h.name, IF h.visible THEN h.value ELSE "">>

\* Faulty variant: the body is left in the engine's response, to be read
\* later.
MaterializeLazyBody(resp) ==
    [status |-> resp.status,
     headers |-> [i \in 1..Len(resp.headers) |-> HeaderPair(resp.headers[i])],
     body |-> "",
     url |-> resp.url,
     version |-> VersionDebug(resp.version),
     content_length |-> resp.content_length]

\* execute_request, lines 122-132: the ResponseData built from the response.
Materialize(resp) ==
    [status |-> resp.status,
     headers |-> [i \in 1..Len(resp.headers) |-> HeaderPair(resp.headers[i])],
     body |-> resp.body,
     url |-> resp.url,
     version |-> VersionDebug(resp.version),
     content_length |-> resp.content_length]

\* Faulty variant: a failed attempt is submitted again.
AwaitRetries(t, pend) ==
    /\ eng' = [eng EXCEPT ![t] = [st |-> "inflight", resp |-> NoData, msg |-> ""]]
    /\ fut' = [fut EXCEPT ![t] = "send"]
    /\ submitted' = [submitted EXCEPT ![t] = @ + 1]
    /\ StillPending(t, pend)

\* The `?` of `req.send().await?` and `resp.bytes().await?`, and the arm
\* `Err(e) => RequestOutcome::Err(e)`: the engine's error ends the request.
AwaitFailed(t, pend) ==
    /\ ClosureEnds(t, ClosureVal(OutcomeErr(eng[t].msg)))
    /\ UNCHANGED <<eng, fut, submitted>>

\* `res = execute_request(req) => match res { Ok(data) => .., Err(e) => .. }`:
\* one poll of the request future.  Its first poll hands the request to the
\* engine (or fails on a request the builder could not build); later polls
\* pick up the response head, then the whole body.  The engine may also fault.
PollExecuteRequest(t, pend) ==
    \/ /\ fut[t] = "init"
       /\ eng' = [eng EXCEPT ![t].st = "inflight"]
       /\ fut' = [fut EXCEPT ![t] = "send"]
       /\ submitted' = [submitted EXCEPT ![t] = @ + 1]
       /\ StillPending(t, pend)
    \/ /\ fut[t] = "init"
       /\ ClosureEnds(t, ClosureVal(OutcomeErr(BuilderMsg)))
       /\ UNCHANGED <<eng, fut, submitted>>
    \/ /\ fut[t] = "send"
       /\ eng[t].st = "head"
       /\ fut' = [fut EXCEPT ![t] = "body"]
       /\ StillPending(t, pend)
       /\ UNCHANGED <<eng, submitted>>
    \/ /\ \/ fut[t] = "send" /\ eng[t].st = "inflight"
          \/ fut[t] = "body" /\ eng[t].st = "head"
       /\ StillPending(t, pend)
       /\ UNCHANGED <<eng, fut, submitted>>
    \/ /\ fut[t] \in {"send", "body"}
       /\ eng[t].st = "complete"
       /\ ClosureEnds(t, ClosureVal(OutcomeOk(Materialize(eng[t].resp))))
       /\ UNCHANGED <<eng, fut, submitted>>
    \/ /\ fut[t] \in {"send", "body"}
       /\ eng[t].st = "failed"
       /\ AwaitFailed(t, pend)
    \/ /\ \E p \in EnginePayloads : ClosureEnds(t, ClosurePanic(p))
       /\ UNCHANGED <<eng, fut, submitted>>

PollBranch(t, b, pend) ==
    IF b = "cancel" THEN PollCancelled(t, pend) ELSE PollExecuteRequest(t, pend)

\* A poll of the select begins: its first branch.
SelectPollFirst(t) ==
    /\ UNCHANGED probe
    /\ pc[t] = "select1" \/ (pc[t] = "parked" /\ Woken(t))
    /\ lastPoll' = [lastPoll EXCEPT ![t] = [tok |-> token[t], eng |-> eng[t].st]]
    /\ PollBranch(t, BranchOrder[1], "select2")
    /\ UNCHANGED <<holders, func, token, ubfLog, rt, rtBuilds, ret, execCount,
                   consumed, argsBad>>

\* The first branch was pending: the second one.
SelectPollSecond(t) ==
    /\ UNCHANGED probe
    /\ pc[t] = "select2"
    /\ PollBranch(t, BranchOrder[2], "parked")
    /\ UNCHANGED <<holders, func, token, ubfLog, lastPoll, rt, rtBuilds, ret,
                   execCount, consumed, argsBad>>

\* ----------------------------------------------------------------- the engine

EngineHead(t) ==
    /\ UNCHANGED probe
    /\ Racing(t)
    /\ eng[t].st = "inflight"
    /\ eng' = [eng EXCEPT ![t].st = "head"]
    /\ UNCHANGED <<holders, pc, record, ubfLog, fut, lastPoll, rt, rtBuilds, ret, ghost>>

EngineBody(t) ==
    /\ UNCHANGED probe
    /\ Racing(t)
    /\ eng[t].st = "head"
    /\ \E r \in Responses :
          eng' = [eng EXCEPT ![t] = [st |-> "complete", resp |-> r, msg |-> ""]]
    /\ UNCHANGED <<holders, pc, record, ubfLog, fut, lastPoll, rt, rtBuilds, ret, ghost>>

EngineFail(t) ==
    /\ UNCHANGED probe
    /\ Racing(t)
    /\ eng[t].st \in {"inflight", "head"}
    /\ \E m \in EngineMsgs : eng' = [eng EXCEPT ![t] = [st |-> "failed", resp |-> NoData, msg |-> m]]
    /\ UNCHANGED <<holders, pc, record, ubfLog, fut, lastPoll, rt, rtBuilds, ret, ghost>>

\* ------------------------------------------------------- the interrupt hook

\* Faulty variant: cancel flips the flag.
CancelToggle(tok) == IF tok = "Cancelled" THEN "Active" ELSE "Cancelled"

\* CancellationToken::cancel.
Cancel(tok) == "Cancelled"

UbfPhase(t) ==
    IF pc[t] = "detached" THEN "before"
    ELSE IF pc[t] = "finished" THEN "after"
    ELSE IF eng[t].st \in {"inflight", "head"} THEN "inflight"
    ELSE "during"

\* Faulty variant: one token is shared by all the calls in progress.
UbfSharedToken(t) ==
    /\ UNCHANGED probe
    /\ pc[t] \in {"detached", "closure", "rtinit", "select1", "select2",
                  "parked", "finished"}
    /\ Len(ubfLog[t]) < MaxUbf
    /\ token' = [u \in Threads |-> IF token[u] = "absent" THEN "absent" ELSE Cancel(token[u])]
    /\ ubfLog' = [ubfLog EXCEPT ![t] = Append(@, UbfPhase(t))]
    /\ UNCHANGED <<holders, pc, func, result, panic_payload, eng, fut, lastPoll,
                   rt, rtBuilds, ret, ghost>>

\* Faulty variant: the hook also writes Interrupted into the result slot.
UbfStoresInterrupted(t) ==
    /\ UNCHANGED probe
    /\ pc[t] \in {"detached", "closure", "rtinit", "select1", "select2",
                  "parked", "finished"}
    /\ Len(ubfLog[t]) < MaxUbf
    /\ token' = [token EXCEPT ![t] = Cancel(@)]
    /\ result' = [result EXCEPT ![t] = OutcomeInterrupted]
    /\ ubfLog' = [ubfLog EXCEPT ![t] = Append(@, UbfPhase(t))]
    /\ UNCHANGED <<holders, pc, func, panic_payload, eng, fut, lastPoll,
                   rt, rtBuilds, ret, ghost>>

\* ubf: the host may call it from any thread at any moment between entering
\* the primitive and leaving it.
Ubf(t) ==
    /\ UNCHANGED probe
    /\ pc[t] \in {"detached", "closure", "rtinit", "select1", "select2",
                  "parked", "finished"}
    /\ Len(ubfLog[t]) < MaxUbf
    /\ token' = [token EXCEPT ![t] = Cancel(@)]
    /\ ubfLog' = [ubfLog EXCEPT ![t] = Append(@, UbfPhase(t))]
    /\ UNCHANGED <<holders, pc, func, result, panic_payload, eng, fut, lastPoll,
                   rt, rtBuilds, ret, ghost>>

\* ------------------------------------------------------- back under the lock

\* rb_thread_call_without_gvl takes the lock again once the trampoline has
\* returned, unregisters ubf and returns.
Reattach(t) ==
    /\ UNCHANGED probe
    /\ pc[t] = "finished"
    /\ holders = {}
    /\ holders' = {t}
    /\ pc' = [pc EXCEPT ![t] = "returned"]
    /\ UNCHANGED <<record, ubfLog, eng, fut, lastPoll, rt, rtBuilds, ret, ghost>>

\* Faulty variant: the captured payload is replaced by a generic message.
ResumeUnwindGeneric(payload) == "internal error"

\* panic::resume_unwind: the payload travels on as it is.
ResumeUnwind(payload) == payload

\* Faulty variant: the engine's message is replaced by a generic one.
HostResultGeneric(o) ==
    CASE o.kind = "Ok" -> RetResponse(o.data)
      [] o.kind = "Err" -> RetError("Wreq::Error", "request failed")
      [] OTHER -> RetError("Wreq::Error", "request interrupted")

\* execute_method, lines 339-344: the outcome as the host sees it.
HostResult(o) ==
    CASE o.kind = "Ok" -> RetResponse(o.data)
      [] o.kind = "Err" -> RetError("Wreq::Error", o.msg)
      [] OTHER -> RetError("Wreq::Error", "request interrupted")

UnwrapNone == "called Option::unwrap() on a None value"

\* without_gvl, lines 95-99, and the rest of execute_method: re-raise a
\* captured panic, else take the result out and hand it to the host.  The
\* CallData goes out of scope.
WithoutGvlReturn(t) ==
    /\ UNCHANGED probe
    /\ pc[t] = "returned"
    /\ IF panic_payload[t] # "None"
       THEN /\ ret' = [ret EXCEPT ![t] = RetPanic(ResumeUnwind(panic_payload[t]))]
            /\ consumed' = consumed
       ELSE IF result[t].kind = "None"
       THEN /\ ret' = [ret EXCEPT ![t] = RetPanic(UnwrapNone)]
            /\ consumed' = consumed
       ELSE /\ ret' = [ret EXCEPT ![t] = HostResult(result[t])]
            /\ consumed' = [consumed EXCEPT ![t] = @ + 1]
    /\ func' = [func EXCEPT ![t] = "absent"]
    /\ result' = [result EXCEPT ![t] = NoOutcome]
    /\ token' = [token EXCEPT ![t] = "absent"]
    /\ panic_payload' = [panic_payload EXCEPT ![t] = "None"]
    /\ pc' = [pc EXCEPT ![t] = "done"]
    /\ UNCHANGED <<holders, ubfLog, eng, fut, lastPoll, rt, rtBuilds, thrown,
                   execCount, submitted, unwound, argsBad>>

\* The host has the call's return value; the thread goes on with host code.
CallEnd(t) ==
    /\ UNCHANGED probe
    /\ pc[t] \in {"done", "rejected"}
    /\ pc' = [pc EXCEPT ![t] = "idle"]
    /\ ret' = [ret EXCEPT ![t] = NoReturn]
    /\ ubfLog' = [ubfLog EXCEPT ![t] = <<>>]
    /\ eng' = [eng EXCEPT ![t] = EngineIdle]
    /\ fut' = [fut EXCEPT ![t] = "init"]
    /\ lastPoll' = [lastPoll EXCEPT ![t] = NoPoll]
    /\ thrown' = [thrown EXCEPT ![t] = "None"]
    /\ execCount' = [execCount EXCEPT ![t] = 0]
    /\ submitted' = [submitted EXCEPT ![t] = 0]
    /\ consumed' = [consumed EXCEPT ![t] = 0]
    /\ argsBad' = [argsBad EXCEPT ![t] = FALSE]
    /\ UNCHANGED <<holders, record, rt, rtBuilds, unwound>>

Next ==
    \E t \in Threads :
        \/ HostAcquire(t)
        \/ HostYield(t)
        \/ ExecuteMethod(t)
        \/ TrampolineStart(t)
        \/ RuntimeGet(t)
        \/ RuntimeBuild(t)
        \/ SelectPollFirst(t)
        \/ SelectPollSecond(t)
        \/ EngineHead(t)
        \/ EngineBody(t)
        \/ EngineFail(t)
        \/ Ubf(t)
        \/ Reattach(t)
        \/ WithoutGvlReturn(t)
        \/ CallEnd(t)

Spec == Init /\ [][Next]_vars

\* ------------------------------------------------------- progress of a call
\* One thread issues request calls while the other host threads only compete
\* for the lock.

Callers == {"t1"}

LiveNext ==
    \/ \E t \in Threads :
          \/ HostAcquire(t)
          \/ HostYield(t)
    \/ \E t \in Callers :
          \/ ExecuteMethod(t)
          \/ TrampolineStart(t)
          \/ RuntimeGet(t)
          \/ RuntimeBuild(t)
          \/ SelectPollFirst(t)
          \/ SelectPollSecond(t)
          \/ EngineHead(t)
          \/ EngineBody(t)
          \/ EngineFail(t)
          \/ Ubf(t)
          \/ Reattach(t)
          \/ WithoutGvlReturn(t)
          \/ CallEnd(t)

\* The calling thread keeps running its own code (the polls of the race, the
\* return path), and the host hands the lock to a thread that waits for it
\* (its timer makes the holder yield).  Nothing is assumed of the engine or of
\* the hook.
Fairness ==
    /\ \A t \in Threads : SF_vars(HostYield(t))
    /\ \A t \in Callers :
        /\ WF_vars(SelectPollFirst(t))
        /\ WF_vars(SelectPollSecond(t))
        /\ SF_vars(Reattach(t))
        /\ WF_vars(WithoutGvlReturn(t))

LiveSpec == Init /\ [][LiveNext]_vars /\ Fairness

\* ------------------------------------------------------ host values, hashes

\* A host (Ruby) value: its class, a text that stands for a scalar's content,
\* the elements of an array, the entries <<key, value>> of a hash in insertion
\* order.
RVal(t, v) == [t |-> t, v |-> v, q |-> <<>>, e |-> <<>>]
RArray(q) == [t |-> "Array", v |-> "", q |-> q, e |-> <<>>]
RHash(e) == [t |-> "Hash", v |-> "", q |-> <<>>, e |-> e]
Nil == RVal("Nil", "")

\* A hash key: the string "name" or the symbol :name.
StrKey(name) == [sym |-> FALSE, name |-> name]
SymKey(name) == [sym |-> TRUE, name |-> name]

\* RHash::aref: the stored value, nil for a key the hash does not hold.
aref(hash, k) == IF k \in DOMAIN hash THEN hash[k] ELSE Nil

None == [kind |-> "None", v |-> "", class |-> "", msg |-> ""]
Some(v) == [kind |-> "Some", v |-> v, class |-> "", msg |-> ""]
ConvErr == [kind |-> "Err", v |-> "", class |-> "TypeError",
            msg |-> "no implicit conversion"]

\* Faulty variant: the symbol key is tried first.
hash_get_value_symbol_first(hash, key) ==
    IF aref(hash, SymKey(key)).t # "Nil" THEN [some |-> TRUE, val |-> aref(hash, SymKey(key))]
    ELSE IF aref(hash, StrKey(key)).t # "Nil"
         THEN [some |-> TRUE, val |-> aref(hash, StrKey(key))]
         ELSE [some |-> FALSE, val |-> Nil]

\* hash_get_value: the string key, then the symbol key; nil counts as absent.
hash_get_value(hash, key) ==
    IF aref(hash, StrKey(key)).t # "Nil" THEN [some |-> TRUE, val |-> aref(hash, StrKey(key))]
    ELSE IF aref(hash, SymKey(key)).t # "Nil"
         THEN [some |-> TRUE, val |-> aref(hash, SymKey(key))]
         ELSE [some |-> FALSE, val |-> Nil]

hash_get_string(hash, key) ==
    LET r == hash_get_value(hash, key)
    IN  IF ~r.some THEN None
        ELSE IF r.val.t = "String" THEN Some(r.val.v) ELSE ConvErr

hash_get_float(hash, key) ==
    LET r == hash_get_value(hash, key)
    IN  IF ~r.some THEN None
        ELSE IF r.val.t \in {"Float", "Integer"} THEN Some(r.val.v) ELSE ConvErr

\* bool's TryConvert is the host's truthiness: it never fails, and every value
\* but false (nil was taken as absent) is true.
hash_get_bool(hash, key) ==
    LET r == hash_get_value(hash, key)
    IN  IF ~r.some THEN None
        ELSE IF r.val = RVal("Bool", "false") THEN Some("false") ELSE Some("true")

hash_get_hash(hash, key) ==
    LET r == hash_get_value(hash, key)
    IN  IF ~r.some THEN None
        ELSE IF r.val.t = "Hash" THEN Some(r.val) ELSE ConvErr

\* All subsets of S with at most n elements.
RECURSIVE SubsetsUpTo(_, _)
SubsetsUpTo(S, n) ==
    IF n = 0 THEN {{}}
    ELSE LET P == SubsetsUpTo(S, n - 1)
         IN  P \cup {T \cup {x} : T \in P, x \in S}

\* ------------------------------------------------------- Wreq::Client.new

\* Option entries one hash given to Client.new holds.
MaxClientOpts == 2

\* BrowserEmulation's names as serde reads them, and DEFAULT_EMULATION.
EmulationNames == {"chrome_143", "firefox_146", "safari_18_5"}
EmulationVariant(name) ==
    CASE name = "chrome_143" -> "Chrome143"
      [] name = "firefox_146" -> "Firefox146"
      [] name = "safari_18_5" -> "Safari18_5"
      [] OTHER -> "unset"
DEFAULT_EMULATION == "Chrome143"

\* The settings of wreq::ClientBuilder that rb_new can touch; a fresh builder
\* has none of them set.
ClientSettings ==
    {"emulation", "user_agent", "default_headers", "timeout", "connect_timeout",
     "read_timeout", "redirect", "cookie_store", "proxy", "proxy_auth",
     "no_proxy", "https_only", "http_version", "gzip", "brotli", "deflate",
     "zstd"}
NewBuilder == [x \in ClientSettings |-> "unset"]
Set(b, setting, v) == [b EXCEPT ![setting] = v]

BOk(b) == [kind |-> "ok", b |-> b, class |-> "", msg |-> ""]
BErr(c, m) == [kind |-> "err", b |-> NewBuilder, class |-> c, msg |-> m]
BPanic(m) == [kind |-> "panic", b |-> NewBuilder, class |-> "", msg |-> m]

\* parse_emulation
parse_emulation(name) ==
    IF name \in EmulationNames THEN Some(EmulationVariant(name))
    ELSE [kind |-> "Err", v |-> "", class |-> "Wreq::Error",
          msg |-> "unknown emulation"]

\* Faulty variant: a hash without the emulation key gets no emulation.
EmulationKeyAbsentSkips(b) == b

\* rb_new, lines 181-183: the options hold no emulation.
EmulationKeyAbsent(b) == Set(b, "emulation", DEFAULT_EMULATION)

\* rb_new, lines 170-183.
EmulationOpt(h, b) ==
    LET r == hash_get_value(h, "emulation")
    IN  IF ~r.some THEN BOk(EmulationKeyAbsent(b))
        ELSE IF r.val = RVal("Bool", "false") THEN BOk(b)
        ELSE IF r.val = RVal("Bool", "true")
             THEN BOk(Set(b, "emulation", DEFAULT_EMULATION))
        ELSE IF r.val.t # "String" THEN BErr(ConvErr.class, ConvErr.msg)
        ELSE LET e == parse_emulation(r.val.v)
             IN  IF e.kind = "Err" THEN BErr(e.class, e.msg)
                 ELSE BOk(Set(b, "emulation", e.v))

\* `if let Some(x) = hash_get_string(&opts, key)? { builder = builder.f(x) }`
StringOpt(h, b, key, setting) ==
    LET r == hash_get_string(h, key)
    IN  CASE r.kind = "Err" -> BErr(r.class, r.msg)
          [] r.kind = "Some" -> BOk(Set(b, setting, r.v))
          [] OTHER -> BOk(b)

\* hash_to_header_map on a hash whose text v stands for its entries.
hash_to_header_map(hash) ==
    IF hash.v = "ok" THEN Some("ok")
    ELSE [kind |-> "Err", v |-> "", class |-> "Wreq::Error", msg |-> "invalid header"]

HeadersOpt(h, b) ==
    LET r == hash_get_hash(h, "headers")
    IN  CASE r.kind = "Err" -> BErr(r.class, r.msg)
          [] r.kind = "Some" ->
                LET m == hash_to_header_map(r.v)
                IN  IF m.kind = "Err" THEN BErr(m.class, m.msg)
                    ELSE BOk(Set(b, "default_headers", m.v))
          [] OTHER -> BOk(b)

\* Duration::from_secs_f64 panics on a negative or non-finite number.
DurationOpt(h, b, key, setting) ==
    LET r == hash_get_float(h, key)
    IN  CASE r.kind = "Err" -> BErr(r.class, r.msg)
          [] r.kind = "Some" ->
                IF r.v = "-1.0"
                THEN BPanic("cannot convert float seconds to Duration")
                ELSE BOk(Set(b, setting, r.v))
          [] OTHER -> BOk(b)

\* rb_new, lines 206-216.
RedirectOpt(h, b) ==
    LET r == hash_get_value(h, "redirect")
    IN  IF ~r.some THEN BOk(b)
        ELSE IF r.val = RVal("Bool", "false") THEN BOk(Set(b, "redirect", "none"))
        ELSE IF r.val = RVal("Bool", "true") THEN BOk(Set(b, "redirect", "limited(10)"))
        ELSE IF r.val.t = "Integer" THEN BOk(Set(b, "redirect", r.val.v))
        ELSE BErr(ConvErr.class, ConvErr.msg)

\* `if let Some(v) = hash_get_bool(&opts, key)? { builder = builder.f(v) }`
BoolOpt(h, b, key, setting) ==
    LET r == hash_get_bool(h, key)
    IN  IF r.kind = "Some" THEN BOk(Set(b, setting, r.v)) ELSE BOk(b)

\* `if let Some(true) = hash_get_bool(&opts, key)? { builder = builder.f() }`
TrueOpt(h, b, key, setting, v) ==
    LET r == hash_get_bool(h, key)
    IN  IF r = Some("true") THEN BOk(Set(b, setting, v)) ELSE BOk(b)

\* rb_new, lines 222-231.
ProxyOpt(h, b) ==
    LET r == hash_get_string(h, "proxy")
    IN  CASE r.kind = "Err" -> BErr(r.class, r.msg)
          [] r.kind = "None" -> BOk(b)
          [] OTHER ->
                IF r.v = "::bad::" THEN BErr("Wreq::Error", "invalid proxy url")
                ELSE LET u == hash_get_string(h, "proxy_user")
                         w == hash_get_string(h, "proxy_pass")
                         withProxy == Set(b, "proxy", r.v)
                     IN  IF u.kind = "Err" THEN BErr(u.class, u.msg)
                         ELSE IF w.kind = "Err" THEN BErr(w.class, w.msg)
                         ELSE IF u.kind = "Some" /\ w.kind = "Some"
                              THEN BOk(Set(withProxy, "proxy_auth", "basic"))
                              ELSE BOk(withProxy)

\* The option blocks of rb_new, in the order the code runs them.
ClientOrder ==
    <<"emulation", "user_agent", "headers", "timeout", "connect_timeout",
      "read_timeout", "redirect", "cookies", "proxy", "no_proxy", "https_only",
      "http1_only", "http2_only", "gzip", "brotli", "deflate", "zstd">>

ClientStep(k, h, b) ==
    CASE k = "emulation" -> EmulationOpt(h, b)
      [] k = "user_agent" -> StringOpt(h, b, "user_agent", "user_agent")
      [] k = "headers" -> HeadersOpt(h, b)
      [] k \in {"timeout", "connect_timeout", "read_timeout"} -> DurationOpt(h, b, k, k)
      [] k = "redirect" -> RedirectOpt(h, b)
      [] k = "cookies" -> BoolOpt(h, b, "cookies", "cookie_store")
      [] k = "proxy" -> ProxyOpt(h, b)
      [] k = "no_proxy" -> TrueOpt(h, b, "no_proxy", "no_proxy", "true")
      [] k = "http1_only" -> TrueOpt(h, b, "http1_only", "http_version", "http1")
      [] k = "http2_only" -> TrueOpt(h, b, "http2_only", "http_version", "http2")
      [] OTHER -> BoolOpt(h, b, k, k)

RECURSIVE ClientFrom(_, _, _)
ClientFrom(h, b, i) ==
    IF i > Len(ClientOrder) THEN BOk(b)
    ELSE LET r == ClientStep(ClientOrder[i], h, b)
         IN  IF r.kind = "ok" THEN ClientFrom(h, r.b, i + 1) ELSE r

\* Client::rb_new.  args.kind: "none" (no argument), "nothash", "hash";
\* args.builds: whether the engine can build the client.
rb_new(args) ==
    LET r == CASE args.kind = "none" -> BOk(Set(NewBuilder, "emulation", DEFAULT_EMULATION))
               [] args.kind = "nothash" -> BErr(ConvErr.class, ConvErr.msg)
               [] OTHER -> ClientFrom(args.hash, NewBuilder, 1)
    IN  IF r.kind = "ok" /\ ~args.builds
        THEN BErr("Wreq::Error", "builder error") ELSE r

\* The option names Client.new reads, and the values tried for each.
ClientNames ==
    {ClientOrder[i] : i \in 1..Len(ClientOrder)} \cup {"proxy_user", "proxy_pass"}

ClientValues(name) ==
    CASE name = "emulation" ->
            {RVal("Bool", "true"), RVal("Bool", "false"), Nil,
             RVal("String", "firefox_146"), RVal("String", "safari_18_5"),
             RVal("String", "not_a_real_browser"), RVal("Integer", "7")}
      [] name \in {"user_agent", "proxy_user", "proxy_pass"} ->
            {RVal("String", "s"), RVal("Integer", "7")}
      [] name = "headers" -> {RVal("Hash", "ok"), RVal("Hash", "badname")}
      [] name \in {"timeout", "connect_timeout", "read_timeout"} ->
            {RVal("Float", "1.5"), RVal("Float", "-1.0"), RVal("String", "soon")}
      [] name = "redirect" ->
            {RVal("Bool", "true"), RVal("Bool", "false"), RVal("Integer", "3"),
             RVal("String", "many")}
      [] name = "proxy" -> {RVal("String", "http://p:8080"), RVal("String", "::bad::")}
      [] OTHER -> {RVal("Bool", "true"), RVal("Bool", "false"), RVal("String", "yes")}

\* The keys a hash given to Client.new may hold: every name as a string, and
\* these names as symbols too.
ClientSymNames == {"emulation", "proxy"}
ClientHashKeys ==
    {StrKey(n) : n \in ClientNames} \cup {SymKey(n) : n \in ClientSymNames}

EmptyHash == [k \in {} |-> Nil]
Put(h, k, v) == [x \in DOMAIN h \cup {k} |-> IF x = k THEN v ELSE h[x]]

RECURSIVE ClientHashesOn(_)
ClientHashesOn(S) ==
    IF S = {} THEN {EmptyHash}
    ELSE LET k == CHOOSE x \in S : TRUE
         IN  {Put(h, k, v) : h \in ClientHashesOn(S \ {k}), v \in ClientValues(k.name)}

ClientHashes == UNION {ClientHashesOn(S) : S \in SubsetsUpTo(ClientHashKeys, MaxClientOpts)}

ClientArgs ==
    {[kind |-> "hash", hash |-> h, builds |-> TRUE] : h \in ClientHashes}
    \cup {[kind |-> k, hash |-> EmptyHash, builds |-> bl] :
            k \in {"none", "nothash", "hash"}, bl \in BOOLEAN}

\* ------------------------------------------- host calls outside a request
\* The host calls an operation that needs no request (Client.new, a method
\* of a Response, a conversion) and gets its result.

Idle == probe.op = "none"

Call(op, in, out) ==
    /\ probe' = [op |-> op, in |-> in, out |-> out]
    /\ UNCHANGED bridge

ProbeReturn ==
    /\ probe.op # "none"
    /\ probe' = NoProbe
    /\ UNCHANGED bridge

ClientNew ==
    /\ Idle
    /\ \E a \in ClientArgs : Call("rb_new", a, rb_new(a))

\* ------------------------------------------------------------ Wreq::Response

\* -------------------------------------------------------- JSON conversion

\* Nodes (scalars and containers) of one host value given as `json`.
MaxNodes == 4

\* Integers of the host are unbounded; i64 holds those up to 2**63 - 1.
IntsInI64 == {"7", "-7"}
IntsBeyondI64 == {"2**64"}
Negative(i) == i = "-7"

JsonScalars ==
    {Nil, RVal("Bool", "true"), RVal("Bool", "false"), RVal("String", "x")}
    \cup {RVal("Integer", i) : i \in IntsInI64 \cup IntsBeyondI64}
\* The keys of the hashes: strings.
JsonKeys == {"a", "b"}

\* Host values with exactly n nodes: arrays are sequences of values, hashes
\* insertion-ordered sequences of <<key, value>> with distinct keys.
RECURSIVE ValsOfSize(_), SeqsOfSize(_), EntriesOfSize(_, _)
ValsOfSize(n) ==
    IF n = 1
    THEN JsonScalars \cup {RArray(<<>>), RHash(<<>>)}
    ELSE {RArray(q) : q \in SeqsOfSize(n - 1)}
         \cup {RHash(e) : e \in EntriesOfSize(n - 1, JsonKeys)}

SeqsOfSize(n) ==
    IF n = 0 THEN {<<>>}
    ELSE UNION {{<<v>> \o r : v \in ValsOfSize(k), r \in SeqsOfSize(n - k)} : k \in 1..n}

EntriesOfSize(n, keys) ==
    IF n = 0 THEN {<<>>}
    ELSE UNION {{<<(<<key, v>>)>> \o r :
                    v \in ValsOfSize(k), r \in EntriesOfSize(n - k, keys \ {key})} :
                  k \in 1..n, key \in keys}

JsonInputs == UNION {ValsOfSize(n) : n \in 1..MaxNodes}

\* serde_json::Value.
JTree(j, v, n, q, e) == [j |-> j, v |-> v, n |-> n, q |-> q, e |-> e]
JNull == JTree("Null", "", "", <<>>, <<>>)
JBool(b) == JTree("Bool", b, "", <<>>, <<>>)
JString(x) == JTree("String", x, "", <<>>, <<>>)
JArray(q) == JTree("Array", "", "", q, <<>>)
JObject(e) == JTree("Object", "", "", <<>>, e)
\* serde_json::Number: PosInt(u64), NegInt(i64) or Float(f64).
JNumber(n, x) == JTree("Number", x, n, <<>>, <<>>)

JOk(tree) == [kind |-> "ok", v |-> tree, class |-> "", msg |-> ""]
JErr(c, m) == [kind |-> "err", v |-> JNull, class |-> c, msg |-> m]

\* The order of serde_json::Map's keys (a BTreeMap: sorted).
KeyRank(k) == IF k = "a" THEN 1 ELSE IF k = "b" THEN 2 ELSE 3

\* Map::insert: the entry replaces one with the same key, else takes its
\* place in key order.
RECURSIVE MapInsert(_, _, _)
MapInsert(m, k, x) ==
    IF m = <<>> THEN <<(<<k, x>>)>>
    ELSE IF m[1][1] = k THEN <<(<<k, x>>)>> \o Tail(m)
    ELSE IF KeyRank(k) < KeyRank(m[1][1]) THEN <<(<<k, x>>)>> \o m
    ELSE <<m[1]>> \o MapInsert(Tail(m), k, x)

\* Faulty variant: a negative integer loses its sign.
IntegerToNumberAbs(i) == JNumber("PosInt", IF Negative(i) THEN "7" ELSE i)

\* `Number(i.into())` for an i64.
IntegerToNumber(i) == JNumber(IF Negative(i) THEN "NegInt" ELSE "PosInt", i)

\* ruby_to_json.  Floats, symbol keys and the to_s fallback do not occur in
\* these inputs.
RECURSIVE ruby_to_json(_), ArrayToJson(_, _, _), HashToJson(_, _, _)
ruby_to_json(val) ==
    CASE val.t = "Nil" -> JOk(JNull)
      [] val.t = "Bool" -> JOk(JBool(val.v))
      [] val.t = "Integer" ->
            IF val.v \in IntsInI64 THEN JOk(IntegerToNumber(val.v))
            ELSE JErr("RangeError", "bignum too big to convert into long long")
      [] val.t = "String" -> JOk(JString(val.v))
      [] val.t = "Array" -> ArrayToJson(val.q, 1, <<>>)
      [] val.t = "Hash" -> HashToJson(val.e, 1, <<>>)
      [] OTHER -> JOk(JString(val.v))

ArrayToJson(ary, i, vec) ==
    IF i > Len(ary) THEN JOk(JArray(vec))
    ELSE LET r == ruby_to_json(ary[i])
         IN  IF r.kind = "err" THEN r ELSE ArrayToJson(ary, i + 1, Append(vec, r.v))

HashToJson(entries, i, map) ==
    IF i > Len(entries) THEN JOk(JObject(map))
    ELSE LET k == entries[i][1]
             r == ruby_to_json(entries[i][2])
         IN  IF r.kind = "err" THEN r
             ELSE HashToJson(entries, i + 1, MapInsert(map, k, r.v))

\* ---------------------------------------------------- request body sources

\* serde_json::to_string: the compact text of a tree.
RECURSIVE to_string(_), ItemsText(_, _), MembersText(_, _)
to_string(tree) ==
    CASE tree.j = "Null" -> "null"
      [] tree.j \in {"Bool", "Number"} -> tree.v
      [] tree.j = "String" -> "\"" \o tree.v \o "\""
      [] tree.j = "Array" -> "[" \o ItemsText(tree.q, 1) \o "]"
      [] OTHER -> "{" \o MembersText(tree.e, 1) \o "}"

ItemsText(q, i) ==
    IF i > Len(q) THEN ""
    ELSE (IF i > 1 THEN "," ELSE "") \o to_string(q[i]) \o ItemsText(q, i + 1)

MembersText(e, i) ==
    IF i > Len(e) THEN ""
    ELSE (IF i > 1 THEN "," ELSE "") \o "\"" \o e[i][1] \o "\":"
         \o to_string(e[i][2]) \o MembersText(e, i + 1)

\* ruby_to_json_string
ruby_to_json_string(val) ==
    LET r == ruby_to_json(val)
    IN  IF r.kind = "err"
        THEN [kind |-> "Err", v |-> "", class |-> r.class, msg |-> r.msg]
        ELSE Some(to_string(r.v))

\* hash_to_pairs: every entry as <<key, value.to_s>>, in the hash's order.
RECURSIVE hash_to_pairs(_)
hash_to_pairs(entries) ==
    IF entries = <<>> THEN <<>>
    ELSE <<(<<entries[1][1], entries[1][2].v>>)>> \o hash_to_pairs(Tail(entries))

\* The urlencoded text RequestBuilder::form makes of the pairs.
RECURSIVE PairsText(_, _)
PairsText(pairs, i) ==
    IF i > Len(pairs) THEN ""
    ELSE (IF i > 1 THEN "&" ELSE "") \o pairs[i][1] \o "=" \o pairs[i][2]
         \o PairsText(pairs, i + 1)

\* The part of wreq::RequestBuilder the body sources touch: the body, and
\* the values of the content-type header.
NoBody == [some |-> FALSE, text |-> ""]
NewRequest == [body |-> NoBody, content_type |-> <<>>]

\* Faulty variant: a body already set is kept.
SetBodyOnce(req, text) ==
    IF req.body.some THEN req
    ELSE [req EXCEPT !.body = [some |-> TRUE, text |-> text]]

\* RequestBuilder::body
SetBody(req, text) == [req EXCEPT !.body = [some |-> TRUE, text |-> text]]

\* RequestBuilder::header("content-type", v) adds a value.
AddContentType(req, v) == [req EXCEPT !.content_type = Append(@, v)]

\* RequestBuilder::form sets the urlencoded content type and the body.  The
\* engine decides whether a content type already set is kept.
Form(req, pairs, keeps) ==
    SetBody([req EXCEPT !.content_type =
                IF keeps /\ @ # <<>> THEN @
                ELSE <<"application/x-www-form-urlencoded">>],
            PairsText(pairs, 1))

ROk(req) == [kind |-> "ok", req |-> req, class |-> "", msg |-> ""]
RErr(c, m) == [kind |-> "err", req |-> NewRequest, class |-> c, msg |-> m]

BodyOpt(opts, req) ==
    LET r == hash_get_string(opts, "body")
    IN  CASE r.kind = "Err" -> RErr(r.class, r.msg)
          [] r.kind = "Some" -> ROk(SetBody(req, r.v))
          [] OTHER -> ROk(req)

JsonOpt(opts, req) ==
    LET r == hash_get_value(opts, "json")
    IN  IF ~r.some THEN ROk(req)
        ELSE LET j == ruby_to_json_string(r.val)
             IN  IF j.kind = "Err" THEN RErr(j.class, j.msg)
                 ELSE ROk(SetBody(AddContentType(req, "application/json"), j.v))

FormOpt(opts, req, keeps) ==
    LET r == hash_get_hash(opts, "form")
    IN  CASE r.kind = "Err" -> RErr(r.class, r.msg)
          [] r.kind = "Some" -> ROk(Form(req, hash_to_pairs(r.v.e), keeps))
          [] OTHER -> ROk(req)

\* apply_request_options, its three body sources: body, json, form, each
\* ending the call at the first error.
ApplyBodySources(opts, keeps) ==
    LET b == BodyOpt(opts, NewRequest)
    IN  IF b.kind = "err" THEN b
        ELSE LET j == JsonOpt(opts, b.req)
             IN  IF j.kind = "err" THEN j
                 ELSE FormOpt(opts, j.req, keeps)

\* The values tried for each body source.
BodyNames == {"body", "json", "form"}
BodyValues(name) ==
    CASE name = "body" -> {RVal("String", "raw"), RVal("Integer", "7")}
      [] name = "json" ->
            {Nil, RVal("Bool", "false"), RVal("Integer", "2**64"),
             RHash(<<(<<"a", RArray(<<RVal("Integer", "7"), Nil>>)>>)>>)}
      [] OTHER ->
            {RHash(<<>>), RVal("String", "a=x"),
             RHash(<<(<<"a", RVal("String", "x")>>), (<<"b", RVal("Integer", "7")>>)>>)}

RECURSIVE BodyHashesOn(_)
BodyHashesOn(S) ==
    IF S = {} THEN {EmptyHash}
    ELSE LET n == CHOOSE x \in S : TRUE
         IN  {Put(h, StrKey(n), v) : h \in BodyHashesOn(S \ {n}), v \in BodyValues(n)}

BodyHashes == UNION {BodyHashesOn(S) : S \in SUBSET BodyNames}

\* The hashes an option is looked up in: the option under its string key,
\* its symbol key, both or neither, next to another option.
LookupName == "json"
LookupValues ==
    {Nil, RVal("Bool", "false"), RVal("String", "x"), RVal("Integer", "7")}
LookupKeys == {StrKey(LookupName), SymKey(LookupName), StrKey("body")}
LookupHashes ==
    UNION {[S -> LookupValues] : S \in SUBSET LookupKeys}

\* The code looks an option up in the options the host gave.
OptionLookup ==
    /\ Idle
    /\ \E hash \in LookupHashes :
          Call("lookup", [hash |-> hash], hash_get_value(hash, LookupName))

\* The host gives a request these options.
BodySources ==
    /\ Idle
    /\ \E opts \in BodyHashes, keeps \in BOOLEAN :
          Call("body_sources", [opts |-> opts, keeps |-> keeps],
               ApplyBodySources(opts, keeps))

\* Response.status is a u16.
MaxStatus == 65535

\* Faulty variant: the upper end of the range is included.
ContainsInclusive(lo, hi, x) == lo <= x /\ x <= hi

\* Range::contains for `lo..hi`.
Contains(lo, hi, x) == lo <= x /\ x < hi

is_success(status) == Contains(200, 300, status)
is_redirect(status) == Contains(300, 400, status)
is_client_error(status) == Contains(400, 500, status)
is_server_error(status) == Contains(500, 600, status)

\* Headers in the list of one Response.
MaxHeaders == 3

HeaderNames == {"a", "b", "c"}
HeaderValues == {"1", "2"}

\* The ordered header lists (Vec<(String, String)>) of up to n pairs.
RECURSIVE HeaderLists(_)
HeaderLists(n) ==
    IF n = 0 THEN {<<>>}
    ELSE LET shorter == HeaderLists(n - 1)
         IN  shorter \cup {Append(l, <<k, v>>) : l \in shorter,
                                                k \in HeaderNames, v \in HeaderValues}

\* A host hash as the ordered list of its entries.
Position(hash, k) ==
    IF \E i \in 1..Len(hash) : hash[i][1] = k
    THEN CHOOSE i \in 1..Len(hash) : hash[i][1] = k
    ELSE 0

\* Faulty variant: a key the hash already holds keeps its value.
aset_keeps_first(hash, k, v) ==
    IF Position(hash, k) = 0 THEN Append(hash, <<k, v>>) ELSE hash

\* RHash::aset: a new key goes to the end, a key the hash already holds gets
\* the new value at its place.
aset(hash, k, v) ==
    IF Position(hash, k) = 0 THEN Append(hash, <<k, v>>)
    ELSE [hash EXCEPT ![Position(hash, k)] = <<k, v>>]

\* Response::headers: `for (k, v) in &self.headers { hash.aset(k, v)? }`
RECURSIVE HeadersFrom(_, _, _)
HeadersFrom(list, i, hash) ==
    IF i > Len(list) THEN hash
    ELSE HeadersFrom(list, i + 1, aset(hash, list[i][1], list[i][2]))

headers(list) == HeadersFrom(list, 1, <<>>)

ResponseHeaders ==
    /\ Idle
    /\ \E l \in HeaderLists(MaxHeaders) : Call("headers", [list |-> l], headers(l))

\* json_to_ruby.  Number: as_i64 first (a PosInt beyond i64 has none), then
\* as_f64.
RECURSIVE json_to_ruby(_), JsonToArray(_, _, _), JsonToHash(_, _, _)
json_to_ruby(val) ==
    CASE val.j = "Null" -> Nil
      [] val.j = "Bool" -> RVal("Bool", val.v)
      [] val.j = "Number" ->
            IF val.n = "NegInt" \/ (val.n = "PosInt" /\ val.v \in IntsInI64)
            THEN RVal("Integer", val.v)
            ELSE RVal("Float", val.v)
      [] val.j = "String" -> RVal("String", val.v)
      [] val.j = "Array" -> JsonToArray(val.q, 1, <<>>)
      [] OTHER -> JsonToHash(val.e, 1, <<>>)

JsonToArray(arr, i, ary) ==
    IF i > Len(arr) THEN RArray(ary)
    ELSE JsonToArray(arr, i + 1, Append(ary, json_to_ruby(arr[i])))

JsonToHash(map, i, hash) ==
    IF i > Len(map) THEN RHash(hash)
    ELSE JsonToHash(map, i + 1, aset(hash, map[i][1], json_to_ruby(map[i][2])))

\* The host gives a value as `json` and decodes the same tree again.
JsonRoundTrip ==
    /\ Idle
    /\ \E val \in JsonInputs :
          LET r == ruby_to_json(val)
          IN  Call("json", [val |-> val],
                   [tree |-> r,
                    back |-> IF r.kind = "ok" THEN json_to_ruby(r.v) ELSE Nil])

\* The host asks a Response with this status its four status predicates.
StatusPredicates ==
    /\ Idle
    /\ \E st \in 0..MaxStatus :
          Call("status", [status |-> st],
               [success |-> is_success(st), redirect |-> is_redirect(st),
                client_error |-> is_client_error(st),
                server_error |-> is_server_error(st)])

HostNext ==
    \/ ClientNew
    \/ StatusPredicates
    \/ ResponseHeaders
    \/ JsonRoundTrip
    \/ BodySources
    \/ OptionLookup
    \/ ProbeReturn

HostSpec == Init /\ [][HostNext]_vars

\* ===================================================================== claims

InterruptedError == RetError("Wreq::Error", "request interrupted")

\* The trampoline has returned and the record still exists.
Finished(t) == pc[t] \in {"finished", "returned"}

\* The thread is inside the host primitive, without the lock.
Detached(t) ==
    pc[t] \in {"detached", "closure", "rtinit", "select1", "select2", "parked",
               "finished"}

\* The hook was invoked before the trampoline returned.
UbfBeforeFinish(t) ==
    \E i \in 1..Len(ubfLog[t]) : ubfLog[t][i] \in {"before", "during", "inflight"}

UbfAfterFinish(t) ==
    \E i \in 1..Len(ubfLog[t]) : ubfLog[t][i] = "after"

\* C1: when the token is cancelled and the engine has a completed result
\* (a whole response or an error) at the moment a poll of the select begins,
\* the race ends with Interrupted, and the host gets the interruption error,
\* never a Response or the engine's error.
C1_BiasedTieBreak ==
    \A t \in Threads :
        (/\ lastPoll[t].tok = "Cancelled"
         /\ lastPoll[t].eng \in {"complete", "failed"})
        => /\ Finished(t) \/ pc[t] = "done"
           /\ thrown[t] = "None"
           /\ Finished(t) => result[t] = OutcomeInterrupted
           /\ pc[t] = "done" => ret[t] = InterruptedError

C1_Witness ==
    \E t \in Threads :
        /\ pc[t] = "finished"
        /\ lastPoll[t].tok = "Cancelled"
        /\ lastPoll[t].eng = "complete"
        /\ result[t] = OutcomeInterrupted

\* C2: a panic raised by the closure is captured into the fault slot and the
\* trampoline returns normally; no panic ever unwinds through the host's frame.
C2_PanicContained ==
    \A t \in Threads :
        /\ ~unwound[t]
        /\ pc[t] # "ub"
        /\ thrown[t] # "None" =>
            /\ Finished(t) \/ pc[t] = "done"
            /\ Finished(t) => panic_payload[t] = thrown[t] /\ result[t] = NoOutcome

C2_Witness ==
    \E t \in Threads :
        /\ pc[t] = "finished"
        /\ thrown[t] \in EnginePayloads
        /\ panic_payload[t] = thrown[t]

\* C3: a captured fault reaches the host only in the step that follows the
\* primitive's return, taken by the calling thread with the lock held; that
\* step re-raises it instead of returning a result, with the payload that was
\* captured.
C3_ReraiseAfterReturn ==
    [][\A t \in Threads :
        /\ (thrown[t] # "None" /\ pc[t] # "done" /\ pc'[t] = "done") =>
              /\ pc[t] = "returned"
              /\ t \in holders
              /\ ret'[t] = RetPanic(thrown[t])
              /\ consumed'[t] = 0
        /\ (thrown'[t] # "None" /\ pc'[t] # "done") => ret'[t] = NoReturn]_vars

C3_Witness ==
    \E t \in Threads :
        /\ pc[t] = "done"
        /\ t \in holders
        /\ thrown[t] \in EnginePayloads
        /\ ret[t] = RetPanic(thrown[t])
        /\ consumed[t] = 0

\* C4: while a thread is between detaching and the trampoline's end it does
\* not hold the lock, it holds the lock again only once the trampoline has
\* finished, and at most one thread holds the lock.
C4_LockReleased ==
    /\ Cardinality(holders) <= 1
    /\ \A t \in Threads :
        /\ Detached(t) => t \notin holders
        /\ pc[t] \in {"returned", "done", "rejected"} => t \in holders

\* Another thread holds the lock and has completed a call of its own while
\* this one is parked in the race.
C4_Witness ==
    \E t, u \in Threads :
        /\ pc[t] = "parked"
        /\ u \in holders
        /\ pc[u] = "done"

\* C5: within one call record the token only moves from Active to Cancelled:
\* a cancelled token stays cancelled, every invocation of the hook leaves it
\* cancelled, and an invocation that finds it cancelled changes nothing of
\* the call (token, slots, position, engine, return value).
C5_CancelMonotonic ==
    [][\A t \in Threads :
        /\ (token[t] = "Cancelled" /\ token'[t] # "absent") => token'[t] = "Cancelled"
        /\ (Len(ubfLog'[t]) >= 1 /\ token'[t] # "absent") => token'[t] = "Cancelled"
        /\ (Len(ubfLog'[t]) > Len(ubfLog[t]) /\ token[t] = "Cancelled") =>
              UNCHANGED <<holders, pc, record, eng, fut, lastPoll, rt, rtBuilds,
                          ret, ghost>>]_vars

C5_Witness ==
    \E t \in Threads :
        /\ Len(ubfLog[t]) >= 2
        /\ token[t] = "Cancelled"
        /\ pc[t] = "parked"

\* C6: an invocation of the hook, at any point of the call, changes the
\* token of its own record and nothing else: not the closure slot, the result
\* slot or the fault slot, not the call's position or return value, not
\* another call's token.  An interruption is returned only when the hook ran
\* before the trampoline finished.
C6_UbfFrame ==
    [][\A t \in Threads :
        /\ Len(ubfLog'[t]) > Len(ubfLog[t]) =>
              /\ UNCHANGED <<func, result, panic_payload, pc, ret, holders, eng, fut>>
              /\ \A u \in Threads \ {t} : token'[u] = token[u]
        /\ (pc'[t] = "done" /\ ret'[t] = InterruptedError) => UbfBeforeFinish(t)']_vars

\* The hook ran only after the trampoline had stored a response, and the
\* call still returned that response.
C6_Witness ==
    \E t \in Threads :
        /\ pc[t] = "done"
        /\ UbfAfterFinish(t)
        /\ ~UbfBeforeFinish(t)
        /\ ret[t].kind = "Response"

\* C7: the closure is invoked exactly once per detached call: not before the
\* trampoline starts, once from then on, and the trampoline leaves the
\* closure slot empty.
C7_ClosureOnce ==
    \A t \in Threads :
        /\ execCount[t] <= 1
        /\ pc[t] \in {"idle", "rejected"} => execCount[t] = 0
        /\ pc[t] = "detached" => execCount[t] = 0 /\ func[t] = "Some"
        /\ pc[t] \in {"closure", "rtinit", "select1", "select2", "parked",
                      "finished", "returned"}
              => execCount[t] = 1 /\ func[t] = "None"
        /\ pc[t] = "done" => execCount[t] = 1

\* The hook ran before the trampoline started and again later; the closure
\* still ran once.
C7_Witness ==
    \E t \in Threads :
        /\ pc[t] = "done"
        /\ Len(ubfLog[t]) >= 2
        /\ ubfLog[t][1] = "before"
        /\ execCount[t] = 1

\* C8: a call whose arguments are invalid in a listed way fails with an
\* error return before the adapter is entered: the lock stays held, no call
\* record exists, nothing is submitted to the engine.
C8_AsClaimed ==
    \A t \in Threads :
        argsBad[t] =>
            /\ pc[t] = "rejected"
            /\ ret[t].kind = "Error"
            /\ t \in holders
            /\ func[t] = "absent" /\ token[t] = "absent"
            /\ submitted[t] = 0 /\ execCount[t] = 0

\* The part of C8 about the boundary alone: such a call never detaches.
C8_NeverEntersAdapter ==
    \A t \in Threads :
        argsBad[t] =>
            /\ pc[t] = "rejected"
            /\ ret[t].kind \in {"Error", "Panic"}
            /\ t \in holders
            /\ func[t] = "absent" /\ token[t] = "absent"
            /\ submitted[t] = 0 /\ execCount[t] = 0 /\ eng[t] = EngineIdle

\* C9 as stated: once the hook has cancelled the token before the race
\* yielded, the host never gets a Response.
C9_AsClaimed ==
    \A t \in Threads :
        (pc[t] = "done" /\ UbfBeforeFinish(t)) => ret[t].kind # "Response"

\* C9, amended: if the token is cancelled when a poll of the race begins,
\* that poll ends the race with Interrupted whatever the engine has delivered,
\* and the host gets the interruption error with no response data.  A
\* Response is returned only for a complete engine response, whole, from a
\* poll that began with the token still active.
C9_AllOrNothing ==
    \A t \in Threads :
        /\ lastPoll[t].tok = "Cancelled" =>
              /\ Finished(t) \/ pc[t] = "done"
              /\ thrown[t] = "None"
              /\ Finished(t) => result[t] = OutcomeInterrupted
              /\ pc[t] = "done" => ret[t] = InterruptedError
        /\ (Finished(t) /\ result[t].kind = "Ok") =>
              /\ eng[t].st = "complete"
              /\ result[t].data = Materialize(eng[t].resp)
              /\ lastPoll[t].tok = "Active"
        /\ (Finished(t) /\ result[t].kind # "Ok") => result[t].data = NoData
        /\ (pc[t] = "done" /\ ret[t].kind = "Response") =>
              /\ eng[t].st = "complete"
              /\ ret[t].data = Materialize(eng[t].resp)
              /\ lastPoll[t].tok = "Active"
        /\ (pc[t] = "done" /\ ret[t].kind # "Response") => ret[t].data = NoData

\* Interrupted after the response head had been collected and while the
\* body was still arriving.
C9_Witness ==
    \E t \in Threads :
        /\ pc[t] = "finished"
        /\ fut[t] = "body"
        /\ eng[t].st = "head"
        /\ result[t] = OutcomeInterrupted

\* C10: a detached call that does not fault stores exactly one outcome, and
\* the outcome is taken out once, by the calling thread back under the lock:
\* Ok gives a Response with the materialized data, Err gives Wreq::Error with
\* the engine's message, Interrupted gives the interruption error.
C10_OneOutcome ==
    \A t \in Threads :
        /\ consumed[t] <= 1
        /\ consumed[t] = 1 => pc[t] = "done" /\ t \in holders
        /\ pc[t] \in {"detached", "closure", "rtinit", "select1", "select2", "parked"}
              => result[t] = NoOutcome
        /\ (Finished(t) /\ thrown[t] = "None") =>
              /\ result[t].kind \in {"Ok", "Err", "Interrupted"}
              /\ panic_payload[t] = "None"
        /\ (pc[t] = "done" /\ thrown[t] = "None") =>
              /\ consumed[t] = 1
              /\ \/ /\ ret[t] = RetResponse(Materialize(eng[t].resp))
                    /\ eng[t].st = "complete"
                 \/ /\ ret[t] = RetError("Wreq::Error", eng[t].msg)
                    /\ eng[t].st = "failed"
                 \/ /\ ret[t] = RetError("Wreq::Error", BuilderMsg)
                    /\ submitted[t] = 0
                 \/ /\ ret[t] = InterruptedError
                    /\ UbfBeforeFinish(t)

C10_Witness ==
    \E t \in Threads :
        /\ pc[t] = "done"
        /\ consumed[t] = 1
        /\ eng[t].st = "failed"
        /\ ret[t] = RetError("Wreq::Error", eng[t].msg)

\* C11: within one call the request is handed to the engine at most once,
\* on the first poll of the request future; once an outcome (Failure,
\* Interrupted or any other) is stored, nothing is submitted for that call.
C11_SingleAttempt ==
    [][\A t \in Threads :
        /\ submitted'[t] <= 1
        /\ submitted'[t] > submitted[t] =>
              /\ submitted[t] = 0
              /\ fut[t] = "init"
              /\ pc[t] \in {"select1", "select2"}
              /\ result[t] = NoOutcome
        /\ (Finished(t) \/ pc[t] = "done") => submitted'[t] <= submitted[t]]_vars

\* The one attempt failed in the engine and the call was interrupted: the
\* call ended with a single submission.
C11_Witness ==
    \E t \in Threads :
        /\ pc[t] = "done"
        /\ submitted[t] = 1
        /\ eng[t].st = "failed"
        /\ ret[t] = InterruptedError

\* Each field of a ResponseData holds what the engine's response gives for it.
AllFieldsSet(d, resp) ==
    /\ d.status = resp.status
    /\ Len(d.headers) = Len(resp.headers)
    /\ \A i \in 1..Len(resp.headers) :
          /\ d.headers[i][1] = resp.headers[i].name
          /\ d.headers[i][2] = (IF resp.headers[i].visible
                                THEN resp.headers[i].value ELSE "")
    /\ d.body = resp.body
    /\ d.url = resp.url
    /\ d.version \in {"HTTP/1.1", "HTTP/2.0"}
    /\ d.content_length = resp.content_length

\* C12: when the trampoline has returned with a success, and the lock is not
\* yet reacquired, the stored ResponseData already has all six fields set from
\* the engine's complete response; while the call is detached the host has
\* no return value (no Response object exists), and a Response exists only
\* with the calling thread holding the lock, carrying those same fields.
C12_MaterializedDetached ==
    \A t \in Threads :
        /\ (Detached(t) \/ pc[t] = "returned") => ret[t] = NoReturn
        /\ (Finished(t) /\ result[t].kind = "Ok") =>
              /\ eng[t].st = "complete"
              /\ AllFieldsSet(result[t].data, eng[t].resp)
        /\ ret[t].kind = "Response" =>
              /\ pc[t] = "done"
              /\ t \in holders
              /\ eng[t].st = "complete"
              /\ AllFieldsSet(ret[t].data, eng[t].resp)

\* The trampoline has returned with a materialized response while another
\* thread holds the lock.
C12_Witness ==
    \E t, u \in Threads :
        /\ pc[t] = "finished"
        /\ result[t].kind = "Ok"
        /\ result[t].data.body = "ok"
        /\ u \in holders
        /\ u # t

\* The hook cancelled the token while the request was with the engine.
UbfInFlight(t) ==
    \E i \in 1..Len(ubfLog[t]) : ubfLog[t][i] = "inflight"

\* C13 as stated: a call whose token the hook cancelled while the request
\* was in flight returns Interrupted (faults apart).
C13_AsClaimed ==
    \A t \in Threads :
        (pc[t] = "done" /\ UbfInFlight(t) /\ thrown[t] = "None")
            => ret[t] = InterruptedError

\* C13, amended: once the token is cancelled during the race the call
\* returns, whether or not the engine ever produces a result; and when the
\* token is cancelled as a poll of the race is about to begin (the thread is
\* parked or at the start of a poll), the call returns Interrupted.
C13_ReturnsOnceCancelled ==
    \A t \in Callers :
        /\ (token[t] = "Cancelled" /\ Racing(t)) ~> (pc[t] = "done")
        /\ (token[t] = "Cancelled" /\ pc[t] \in {"select1", "parked"})
              ~> (pc[t] = "done" /\ ret[t] = InterruptedError)

\* The call returned the interruption while the engine still had the
\* request in flight.
C13_Witness ==
    \E t \in Threads :
        /\ pc[t] = "done"
        /\ UbfInFlight(t)
        /\ eng[t].st = "inflight"
        /\ ret[t] = InterruptedError

\* C14 as stated: every error a request call gives the host is of class
\* Wreq::Error and carries a message.
C14_AsClaimed ==
    \A t \in Threads :
        ret[t].kind = "Error" => ret[t].class = "Wreq::Error" /\ ret[t].msg # ""

\* The part of C14 that holds: the errors of a call that went through the
\* adapter (engine failure, interruption) are Wreq::Error with a message.
C14_DetachedErrorsInDomain ==
    \A t \in Threads :
        (pc[t] = "done" /\ ret[t].kind = "Error") =>
            ret[t].class = "Wreq::Error" /\ ret[t].msg # ""

\* The value the options give for a name: none when neither key style holds
\* a non-nil value.
Omitted(h, name) ==
    /\ aref(h, StrKey(name)) = Nil
    /\ aref(h, SymKey(name)) = Nil

Given(h, name) ==
    IF aref(h, StrKey(name)) # Nil THEN aref(h, StrKey(name)) ELSE aref(h, SymKey(name))

\* The builder shows the effect of the option `name`.
AppliedBy(name, b) ==
    CASE name = "headers" -> b["default_headers"] # "unset"
      [] name = "cookies" -> b["cookie_store"] # "unset"
      [] name \in {"proxy_user", "proxy_pass"} -> b["proxy_auth"] # "unset"
      [] name = "http1_only" -> b["http_version"] = "http1"
      [] name = "http2_only" -> b["http_version"] = "http2"
      [] OTHER -> b[name] # "unset"

\* C15: for every argument list of Client.new that builds a client: with no
\* options, or options without an `emulation` value, the default profile is
\* applied; `true` applies the default profile, `false` none, a profile name
\* that profile; and every other option that is omitted leaves its builder
\* setting unset.
C15_EmulationDefault ==
    (probe.op = "rb_new" /\ probe.out.kind = "ok") =>
        LET a == probe.in
            b == probe.out.b
        IN  /\ a.kind = "none" =>
                /\ b["emulation"] = DEFAULT_EMULATION
                /\ \A x \in ClientSettings \ {"emulation"} : b[x] = "unset"
            /\ a.kind = "hash" =>
                /\ Omitted(a.hash, "emulation") => b["emulation"] = DEFAULT_EMULATION
                /\ Given(a.hash, "emulation") = RVal("Bool", "true")
                      => b["emulation"] = DEFAULT_EMULATION
                /\ Given(a.hash, "emulation") = RVal("Bool", "false")
                      => b["emulation"] = "unset"
                /\ Given(a.hash, "emulation") = RVal("String", "firefox_146")
                      => b["emulation"] = "Firefox146"
                /\ Given(a.hash, "emulation") = RVal("String", "safari_18_5")
                      => b["emulation"] = "Safari18_5"
                /\ \A n \in ClientNames \ {"emulation"} :
                      Omitted(a.hash, n) => ~AppliedBy(n, b)

\* An option hash that holds another option but no emulation: the client is
\* built with the default profile and that option.
C15_Witness ==
    /\ probe.op = "rb_new"
    /\ probe.out.kind = "ok"
    /\ probe.in.kind = "hash"
    /\ Omitted(probe.in.hash, "emulation")
    /\ ~Omitted(probe.in.hash, "gzip")
    /\ probe.out.b["emulation"] = DEFAULT_EMULATION
    /\ probe.out.b["gzip"] = "false"

\* The hundreds class of a status: 2 for 200..299, 3 for 300..399, ...
StatusClass(st) == st \div 100

\* C16: for every 16-bit status each predicate is true exactly on its
\* hundred (success? on 2xx, redirect? on 3xx, client_error? on 4xx,
\* server_error? on 5xx), at most one of the four is true, and none is true
\* below 200 or from 600 on.
C16_StatusRanges ==
    probe.op = "status" =>
        LET st == probe.in.status
            o == probe.out
            trues == {x \in {"success", "redirect", "client_error", "server_error"} : o[x]}
        IN  /\ o.success <=> StatusClass(st) = 2
            /\ o.redirect <=> StatusClass(st) = 3
            /\ o.client_error <=> StatusClass(st) = 4
            /\ o.server_error <=> StatusClass(st) = 5
            /\ Cardinality(trues) <= 1
            /\ (st < 200 \/ st >= 600) => trues = {}

\* A status on the edge between two ranges: 300 is a redirect and no success.
C16_Witness ==
    /\ probe.op = "status"
    /\ probe.in.status = 300
    /\ probe.out.redirect
    /\ ~probe.out.success

FirstAt(list, k) == CHOOSE i \in 1..Len(list) :
    list[i][1] = k /\ \A j \in 1..(i - 1) : list[j][1] # k
LastAt(list, k) == CHOOSE i \in 1..Len(list) :
    list[i][1] = k /\ \A j \in (i + 1)..Len(list) : list[j][1] # k
NamesIn(list) == {list[i][1] : i \in 1..Len(list)}

\* C17: the map Response#headers builds has one entry for each name of the
\* list and no other, each name holds the value of its last occurrence, and
\* the entries stand in the order of the names' first occurrences.
C17_HeadersLastWins ==
    probe.op = "headers" =>
        LET l == probe.in.list
            m == probe.out
        IN  /\ {m[i][1] : i \in 1..Len(m)} = NamesIn(l)
            /\ Len(m) = Cardinality(NamesIn(l))
            /\ \A i \in 1..Len(m) : m[i][2] = l[LastAt(l, m[i][1])][2]
            /\ \A i, j \in 1..Len(m) :
                  i < j => FirstAt(l, m[i][1]) < FirstAt(l, m[j][1])

\* A name occurs twice with different values and another name in between.
C17_Witness ==
    /\ probe.op = "headers"
    /\ probe.in.list = <<(<<"b", "1">>), (<<"a", "1">>), (<<"b", "2">>)>>
    /\ probe.out = <<(<<"b", "2">>), (<<"a", "1">>)>>

\* Structural equality of host values (the host's ==): arrays element by
\* element, hashes as maps whatever the order of their entries.
RECURSIVE RubyEq(_, _)
RubyEq(x, y) ==
    /\ x.t = y.t
    /\ CASE x.t = "Array" ->
              /\ Len(x.q) = Len(y.q)
              /\ \A i \in 1..Len(x.q) : RubyEq(x.q[i], y.q[i])
         [] x.t = "Hash" ->
              /\ Len(x.e) = Len(y.e)
              /\ \A i \in 1..Len(x.e) : \E j \in 1..Len(y.e) :
                    /\ x.e[i][1] = y.e[j][1]
                    /\ RubyEq(x.e[i][2], y.e[j][2])
         [] OTHER -> x.v = y.v

\* The value holds an integer that i64 cannot hold.
RECURSIVE HasBigInteger(_)
HasBigInteger(x) ==
    CASE x.t = "Integer" -> x.v \in IntsBeyondI64
      [] x.t = "Array" -> \E i \in 1..Len(x.q) : HasBigInteger(x.q[i])
      [] x.t = "Hash" -> \E i \in 1..Len(x.e) : HasBigInteger(x.e[i][2])
      [] OTHER -> FALSE

\* C18 as stated: every value of nulls, booleans, integers, strings, lists and
\* string-keyed maps converts to a tree, and the tree converts back to a
\* value structurally equal to it.
C18_AsClaimed ==
    probe.op = "json" =>
        /\ probe.out.tree.kind = "ok"
        /\ RubyEq(probe.out.back, probe.in.val)

\* The part of C18 that holds: the round trip of every value whose integers
\* all fit i64.
C18_RoundTripWithinI64 ==
    (probe.op = "json" /\ ~HasBigInteger(probe.in.val)) =>
        /\ probe.out.tree.kind = "ok"
        /\ RubyEq(probe.out.back, probe.in.val)

\* A map given with its keys out of order, holding a list with a negative
\* integer: the round trip gives it back.
C18_NestedRoundTrip ==
    /\ probe.op = "json"
    /\ probe.in.val.t = "Hash"
    /\ Len(probe.in.val.e) = 2
    /\ probe.in.val.e[1][1] = "b"
    /\ probe.in.val.e[1][2] = RArray(<<RVal("Integer", "-7")>>)
    /\ probe.out.tree.kind = "ok"
    /\ RubyEq(probe.out.back, probe.in.val)
    /\ probe.out.back # probe.in.val

\* The options with only this body source left.
Only(opts, name) == [k \in DOMAIN opts \cap {StrKey(name)} |-> opts[k]]
\* The body sources the options give: a key with nil counts as not given.
Sources(opts) == {n \in BodyNames : StrKey(n) \in DOMAIN opts /\ opts[StrKey(n)] # Nil}
\* The source applied last among those given.
LastSource(S) ==
    IF "form" \in S THEN "form" ELSE IF "json" \in S THEN "json" ELSE "body"

\* C19: with more than one of body, json and form given, no error comes of
\* their being given together (the call fails only where one of them fails
\* given alone), and the request carries the body that the last of them in
\* the order body, json, form gives alone.
C19_LastSourceWins ==
    probe.op = "body_sources" =>
        LET opts == probe.in.opts
            S == Sources(opts)
            alone(n) == ApplyBodySources(Only(opts, n), probe.in.keeps)
        IN  /\ probe.out.kind = "ok" <=> \A n \in S : alone(n).kind = "ok"
            /\ (probe.out.kind = "ok" /\ S # {}) =>
                    /\ probe.out.req.body.some
                    /\ probe.out.req.body = alone(LastSource(S)).req.body
            /\ (probe.out.kind = "ok" /\ S = {}) => ~probe.out.req.body.some

\* All three sources given, each with a body of its own: the form's is sent.
C19_Witness ==
    /\ probe.op = "body_sources"
    /\ Sources(probe.in.opts) = BodyNames
    /\ probe.out.kind = "ok"
    /\ probe.out.req.body.text = "a=x&b=7"
    /\ ApplyBodySources(Only(probe.in.opts, "json"), FALSE).req.body.text
          = "{\"a\":[7,null]}"
    /\ ApplyBodySources(Only(probe.in.opts, "body"), FALSE).req.body.text = "raw"

\* What the hash holds under a key: nil where it does not hold the key.
Held(hash, k) == IF k \in DOMAIN hash THEN hash[k] ELSE Nil

\* C20: an option is found under its string key or its symbol key; with
\* non-nil values under both, the string key's value is the one used; the
\* option is absent only when neither key holds a non-nil value.
C20_StringKeyFirst ==
    probe.op = "lookup" =>
        LET str == Held(probe.in.hash, StrKey(LookupName))
            sym == Held(probe.in.hash, SymKey(LookupName))
        IN  /\ str # Nil => probe.out.some /\ probe.out.val = str
            /\ (str = Nil /\ sym # Nil) => probe.out.some /\ probe.out.val = sym
            /\ ~probe.out.some <=> (str = Nil /\ sym = Nil)

\* Both keys hold a value, the symbol key another one than the string key:
\* the string key's false is what the lookup gives.
C20_Witness ==
    /\ probe.op = "lookup"
    /\ Held(probe.in.hash, StrKey(LookupName)) = RVal("Bool", "false")
    /\ Held(probe.in.hash, SymKey(LookupName)) = RVal("String", "x")
    /\ probe.out.some
    /\ probe.out.val = RVal("Bool", "false")

\* What a call owns: its record, its position, its request and its return.
CallState(u) ==
    <<func[u], result[u], token[u], panic_payload[u], pc[u], eng[u], fut[u], ret[u]>>

\* C21: each call that detaches gets a record of its own with an Active
\* token and empty slots, and leaves the other calls' records alone; an
\* invocation of the hook for one call cancels that call's token and leaves
\* the token, the slots, the position, the request and the return value of
\* every other call as they were; a token is cancelled only when the hook ran
\* for its own call.
C21_IndependentCalls ==
    /\ [](\A t \in Threads : token[t] = "Cancelled" => Len(ubfLog[t]) >= 1)
    /\ [][\A t \in Threads :
            /\ (pc[t] = "idle" /\ pc'[t] = "detached") =>
                  /\ func'[t] = "Some" /\ result'[t] = NoOutcome
                  /\ token'[t] = "Active" /\ panic_payload'[t] = "None"
                  /\ \A u \in Threads \ {t} : CallState(u)' = CallState(u)
            /\ Len(ubfLog'[t]) > Len(ubfLog[t]) =>
                  /\ token'[t] = "Cancelled"
                  /\ \A u \in Threads \ {t} : CallState(u)' = CallState(u)]_vars

\* Two calls were detached together, the hook ran for one of them only: that
\* one ended Interrupted, the other with its response and an Active token.
C21_Witness ==
    \E t, u \in Threads :
        /\ pc[t] = "finished" /\ pc[u] = "finished"
        /\ Len(ubfLog[t]) >= 1 /\ ubfLog[u] = <<>>
        /\ token[t] = "Cancelled" /\ result[t] = OutcomeInterrupted
        /\ token[u] = "Active" /\ result[u].kind = "Ok"

\* The threads that are running the runtime's initializer.
Initializing == {t \in Threads : pc[t] = "rtinit"}

\* C22: the runtime is built at most once in the process, by a detached call
\* inside runtime() (not before): while one call runs the initializer no
\* other does, a call goes on to the race only with the runtime built, and a
\* built runtime stays as it is, not rebuilt and not torn down.
C22_RuntimeOnce ==
    /\ [](/\ rtBuilds <= 1
          /\ rt = "ready" <=> rtBuilds = 1
          /\ rt = "building" <=> Initializing # {}
          /\ Cardinality(Initializing) <= 1
          /\ \A t \in Threads : Racing(t) => rt = "ready")
    /\ [][/\ rt = "ready" => rt' = "ready" /\ rtBuilds' = rtBuilds
          /\ rt' # rt => \E t \in Threads :
                            /\ pc[t] \in {"closure", "rtinit"}
                            /\ t \notin holders
                            /\ pc'[t] # pc[t]
          /\ rtBuilds' # rtBuilds => rt = "building" /\ rtBuilds' = rtBuilds + 1]_vars

\* Two detached calls came to runtime() with no runtime built yet: one runs
\* the initializer, the other waits for it.
C22_Witness ==
    \E t, u \in Threads :
        /\ pc[t] = "rtinit"
        /\ pc[u] = "closure"
        /\ rt = "building"
        /\ rtBuilds = 0

ResultFilled(t) == result[t] # NoOutcome
FaultFilled(t) == panic_payload[t] # "None"

\* C23: from the trampoline's return until the record is read, exactly one
\* of the result slot and the fault slot is filled, however often and
\* whenever the hook ran (before that, both are empty); so the call never
\* ends in the panic of unwrapping an empty result slot: it re-raises the
\* captured payload or hands over the stored outcome.
C23_ExactlyOneSlot ==
    \A t \in Threads :
        /\ Finished(t) => (ResultFilled(t) <=> ~FaultFilled(t))
        /\ (Detached(t) /\ pc[t] # "finished") => ~ResultFilled(t) /\ ~FaultFilled(t)
        /\ pc[t] = "done" =>
              /\ ret[t] # RetPanic(UnwrapNone)
              /\ ret[t].kind = "Panic" <=> thrown[t] # "None"
              /\ ret[t].kind = "Panic" => ret[t].msg = thrown[t] /\ consumed[t] = 0
              /\ ret[t].kind # "Panic" => consumed[t] = 1

\* The primitive has returned after the hook ran before the trampoline and
\* again after it: the result slot is filled and the fault slot empty.
C23_Witness ==
    \E t \in Threads :
        /\ pc[t] = "returned"
        /\ Len(ubfLog[t]) >= 2
        /\ ubfLog[t][1] = "before"
        /\ UbfAfterFinish(t)
        /\ ResultFilled(t)
        /\ ~FaultFilled(t)

\* The closure has not reached the race yet.
BeforeRace(t) == pc[t] \in {"detached", "closure", "rtinit"}

\* C24 as stated: a call whose token the hook cancelled before the
\* trampoline started ends Interrupted, with nothing submitted.
C24_AsClaimed ==
    \A t \in Threads :
        (pc[t] = "done" /\ ubfLog[t] # <<>> /\ ubfLog[t][1] = "before")
            => ret[t] = InterruptedError /\ submitted[t] = 0

\* C24, amended: a token cancelled before the closure reaches the race is still
\* cancelled when the race begins, unless the closure faults on the way (the
\* runtime fails to build); the first poll of the race, finding the token
\* cancelled, ends the race with Interrupted without polling the request; and
\* in every such call nothing is submitted to the engine.
C24_CancelledBeforeRace ==
    /\ [](\A t \in Threads :
            /\ (token[t] = "Cancelled" /\ (BeforeRace(t) \/ pc[t] = "select1")) =>
                  submitted[t] = 0 /\ eng[t] = EngineIdle /\ fut[t] = "init"
            /\ (lastPoll[t].tok = "Cancelled" /\ lastPoll[t].eng = "idle") =>
                  /\ Finished(t) \/ pc[t] = "done"
                  /\ submitted[t] = 0 /\ eng[t] = EngineIdle
                  /\ thrown[t] = "None"
                  /\ Finished(t) => result[t] = OutcomeInterrupted
                  /\ pc[t] = "done" => ret[t] = InterruptedError)
    /\ [][\A t \in Threads :
            /\ (token[t] = "Cancelled" /\ BeforeRace(t)) =>
                  /\ token'[t] = "Cancelled"
                  /\ \/ BeforeRace(t)'
                     \/ pc'[t] = "select1"
                     \/ /\ pc'[t] = "finished"
                        /\ thrown'[t] = RuntimeBuildPayload
                        /\ submitted'[t] = 0
            /\ (token[t] = "Cancelled" /\ pc[t] = "select1" /\ pc'[t] # "select1") =>
                  /\ pc'[t] = "finished"
                  /\ lastPoll'[t] = [tok |-> "Cancelled", eng |-> "idle"]
                  /\ result'[t] = OutcomeInterrupted
                  /\ submitted'[t] = 0]_vars

\* The hook ran before the trampoline started; the call ended Interrupted
\* and the engine never saw the request.
C24_Witness ==
    \E t \in Threads :
        /\ pc[t] = "done"
        /\ ubfLog[t] # <<>>
        /\ ubfLog[t][1] = "before"
        /\ ret[t] = InterruptedError
        /\ submitted[t] = 0
        /\ eng[t] = EngineIdle

\* What the engine reported for the call's request, as the host gets it.
EngineReport(t) ==
    CASE eng[t].st = "complete" -> RetResponse(Materialize(eng[t].resp))
      [] eng[t].st = "failed" -> RetError("Wreq::Error", eng[t].msg)
      [] OTHER -> RetError("Wreq::Error", BuilderMsg)

\* C25 as stated: a call during which the hook was never invoked ends with
\* the engine's success or failure.
C25_AsClaimed ==
    \A t \in Threads :
        (pc[t] = "done" /\ ubfLog[t] = <<>>) =>
            /\ ret[t].kind \in {"Response", "Error"}
            /\ ret[t] = EngineReport(t)

\* C25, amended: Interrupted is stored or returned only for a call whose
\* token the hook cancelled before the race ended, found cancelled at the
\* start of the race's last poll; a call whose hook was not invoked before
\* the race ended keeps an Active token until then and, if its closure did
\* not fault, returns what the engine reported: the materialized response,
\* or the engine's error.  If the closure faulted, the call ends with that
\* fault.
C25_NoSpuriousInterrupt ==
    \A t \in Threads :
        /\ (Finished(t) /\ result[t] = OutcomeInterrupted) =>
              /\ UbfBeforeFinish(t)
              /\ token[t] = "Cancelled"
              /\ lastPoll[t].tok = "Cancelled"
        /\ (pc[t] = "done" /\ ret[t] = InterruptedError) =>
              UbfBeforeFinish(t) /\ lastPoll[t].tok = "Cancelled"
        /\ (Detached(t) /\ ubfLog[t] = <<>>) => token[t] = "Active"
        /\ (Finished(t) /\ ~UbfBeforeFinish(t)) => result[t].kind # "Interrupted"
        /\ (pc[t] = "done" /\ ~UbfBeforeFinish(t)) =>
              /\ ret[t] # InterruptedError
              /\ thrown[t] = "None" => ret[t] = EngineReport(t)
              /\ thrown[t] # "None" => ret[t] = RetPanic(thrown[t])

\* One call was interrupted; the other, whose hook never ran, returned the
\* engine's response.
C25_Witness ==
    \E t, u \in Threads :
        /\ pc[t] = "done"
        /\ ubfLog[t] = <<>>
        /\ ret[t].kind = "Response"
        /\ ret[t] = EngineReport(t)
        /\ pc[u] = "finished"
        /\ result[u] = OutcomeInterrupted

====
